---- MODULE Spec2Model ----
(***************************************************************************)
(* Multi-store synchronisation of the arXiv pipeline:                      *)
(*   - Neo4jSync.sync_papers_batch  (src/src/graph/neo4j_sync.py)          *)
(*   - process_papers / sync_qdrant_with_tracking                          *)
(*                            (src/src/pipeline/sync_summary_vectors.py)   *)
(*   - process_pdf / process_all_categories                               *)
(*                            (src/src/pipeline/sync_qdrant.py)            *)
(* The stores are independent systems, so the module carries one           *)
(* specification per subsystem over one state: SpecGraph moves only the    *)
(* graph variables, SpecVec only the vector-side variables, SpecScan the   *)
(* paged scan, SpecConc two concurrent process_papers processes, SpecPdf   *)
(* the PDF replication.                                                    *)
(***************************************************************************)
EXTENDS Integers, Sequences, FiniteSets, TLC

VARIABLES
    graph,      \* the Neo4j database: bags of nodes and edges, node properties
    calls,      \* number of sync_papers_batch calls made so far
    last,       \* the latest call: its batch, its return value, what it met
    papers_collection, \* MongoDB papers collection: the summary each paper id carries
    cfg,        \* config/default.yaml: the tracking flags and the batch size
    collection, \* whether the Qdrant collection exists
    vector_size, \* the vector dimension the collection was created with
    points,     \* the points of the Qdrant collection: [id, paper_id]
    tracking,   \* the tracking ledger (summary_processed_papers)
    ops,        \* operations run so far on the vector side
    vlast,      \* the latest operation on the vector side and what it returned
    db_papers,  \* db.papers as find({}) lists it: the paper ids in storage order
    scan,       \* the paged scan of main(): its counters and the pages it fetched
    runs,       \* concurrent process_papers processes: where each is, its locals
    pdf_dir,    \* the PDF files of the category directory
    pdf_points, \* the chunk points of the PDF collection: [id, source, chunk]
    pdf_tracking, \* the PDF ledger (processed_pdfs): [file_id, chunk_count]
    pdf_runs,   \* operations run so far on the PDF side
    pdf_last    \* the latest process_all_categories run and what it met

gvars == <<graph, calls, last>>
vvars == <<papers_collection, cfg, collection, vector_size, points, tracking, ops, vlast>>
svars == <<db_papers, scan>>
cvars == <<runs>>
pvars == <<pdf_dir, pdf_points, pdf_tracking, pdf_runs, pdf_last>>
vars == <<graph, calls, last, papers_collection, cfg, collection, vector_size, points,
          tracking, ops, vlast, db_papers, scan, runs,
          pdf_dir, pdf_points, pdf_tracking, pdf_runs, pdf_last>>

(***************************************************************************)
(* Bounds                                                                  *)
(***************************************************************************)
MaxBatch == 2       \* longest batch handed to sync_papers_batch
MaxCalls == 2       \* sync_papers_batch calls in one behaviour
MaxOps == 3         \* operations on the vector side in one behaviour
MaxBatchSize == 3   \* largest embedding batch_size a configuration may set
MaxStored == 3      \* papers in db.papers when a scan starts
MaxWrites == 2      \* inserts and deletes by other clients while a scan runs
MaxPage == 2        \* largest batch_size of a scan
MaxPdfRuns == 2     \* operations on the PDF side in one behaviour

(***************************************************************************)
(* Paper documents as MongoDB returns them                                 *)
(***************************************************************************)
NoId == "<missing>"        \* the document has no 'id' key
NoVal == "<unset>"         \* a node property that was never SET
NoTs == 0                  \* sync_timestamp = None
RunTs == 1                 \* datetime.now().isoformat() of a run

PaperKeys == {"", "p1", "p2"}      \* values of Paper.id ('' is paper.get('id', ''))
Authors == {"X", "Y"}
Categories == {"cs.AI", "cs.LG"}

DocA  == [id |-> "p1", title |-> "t1", authors |-> <<"X">>,      categories |-> <<"cs.AI">>]
DocA2 == [id |-> "p1", title |-> "t2", authors |-> <<"X", "Y">>, categories |-> <<"cs.AI">>]
DocB  == [id |-> "p2", title |-> "t1", authors |-> <<"Y">>,      categories |-> <<"cs.LG">>]
DocN  == [id |-> NoId, title |-> "t1", authors |-> <<>>,         categories |-> <<"cs.AI">>]

Docs == {DocA, DocA2, DocB, DocN}

\* A page of db.papers: the collection has a unique index on id, so the
\* documents of one page carry pairwise distinct ids (at most one lacks it).
Batches ==
    {b \in UNION {[1..n -> Docs] : n \in 1..MaxBatch} :
        \A i, j \in DOMAIN b : i # j => b[i].id # b[j].id}

\* One injected store fault per call: <<i, k>> makes the k-th write
\* transaction of paper i raise; <<0, 0>> injects nothing.
NoFault == <<0, 0>>
Faults(papers) == {NoFault} \cup ((1..Len(papers)) \X (1..4))

\* Failure of the session itself: when it is opened, or when it is closed.
SessionFaults == {"none", "open", "close"}

(***************************************************************************)
(* The graph store                                                         *)
(***************************************************************************)
EmptyGraph ==
    [Paper       |-> [k \in PaperKeys |-> 0],
     Author      |-> [a \in Authors |-> 0],
     Category    |-> [c \in Categories |-> 0],
     AUTHORED    |-> [e \in Authors \X PaperKeys |-> 0],
     IN_CATEGORY |-> [e \in PaperKeys \X Categories |-> 0],
     title       |-> [k \in PaperKeys |-> NoVal],
     last_synced |-> [k \in PaperKeys |-> NoTs]]

\* Cypher CREATE: always adds one more node or edge of that key.
CreateAlways(bag, key) == [bag EXCEPT ![key] = @ + 1]

\* Cypher MERGE: match the node or edge of that key, create it only when
\* there is none.
Merge(bag, key) == IF bag[key] = 0 THEN [bag EXCEPT ![key] = 1] ELSE bag

\* paper.get('id', '') replaced by the constant '': every paper of a batch
\* is merged into the one node of key ''.
PaperGetId_Constant(paper) == ""

\* paper.get('id', '')
PaperGetId(paper) == IF paper.id = NoId THEN "" ELSE paper.id

\* _create_paper written with CREATE in place of MERGE.
_create_paper_CREATE(g, paper) ==
    LET id == PaperGetId(paper) IN
    [g EXCEPT !.Paper = CreateAlways(@, id),
              !.title = [@ EXCEPT ![id] = paper.title]]

\* MERGE (p:Paper {id: $id}) SET p.title = $title, ...
_create_paper(g, paper) ==
    LET id == PaperGetId(paper) IN
    [g EXCEPT !.Paper = Merge(@, id),
              !.title = [@ EXCEPT ![id] = paper.title]]

\* _create_authors_batch with the relationship written as CREATE (a)-[:AUTHORED]->(p).
RECURSIVE _create_authors_batch_CREATE(_, _)
_create_authors_batch_CREATE(g, authors_data) ==
    IF authors_data = <<>> THEN g
    ELSE LET pid == Head(authors_data)[1]
             name == Head(authors_data)[2]
             g1 == [g EXCEPT !.Author = Merge(@, name),
                             !.Paper = Merge(@, pid),
                             !.AUTHORED = CreateAlways(@, <<name, pid>>)]
         IN _create_authors_batch_CREATE(g1, Tail(authors_data))

\* UNWIND $authors_data: MERGE (a:Author), MERGE (p:Paper), MERGE (a)-[:AUTHORED]->(p)
RECURSIVE _create_authors_batch(_, _)
_create_authors_batch(g, authors_data) ==
    IF authors_data = <<>> THEN g
    ELSE LET pid == Head(authors_data)[1]
             name == Head(authors_data)[2]
             g1 == [g EXCEPT !.Author = Merge(@, name),
                             !.Paper = Merge(@, pid),
                             !.AUTHORED = Merge(@, <<name, pid>>)]
         IN _create_authors_batch(g1, Tail(authors_data))

\* _create_categories_batch without its last line, MERGE (p)-[:IN_CATEGORY]->(c).
RECURSIVE _create_categories_batch_NoEdge(_, _)
_create_categories_batch_NoEdge(g, categories_data) ==
    IF categories_data = <<>> THEN g
    ELSE LET pid == Head(categories_data)[1]
             name == Head(categories_data)[2]
             g1 == [g EXCEPT !.Category = Merge(@, name),
                             !.Paper = Merge(@, pid)]
         IN _create_categories_batch_NoEdge(g1, Tail(categories_data))

\* UNWIND $categories_data: MERGE (c:Category), MERGE (p:Paper), MERGE (p)-[:IN_CATEGORY]->(c)
RECURSIVE _create_categories_batch(_, _)
_create_categories_batch(g, categories_data) ==
    IF categories_data = <<>> THEN g
    ELSE LET pid == Head(categories_data)[1]
             name == Head(categories_data)[2]
             g1 == [g EXCEPT !.Category = Merge(@, name),
                             !.Paper = Merge(@, pid),
                             !.IN_CATEGORY = Merge(@, <<pid, name>>)]
         IN _create_categories_batch(g1, Tail(categories_data))

\* MATCH (p:Paper {id: $paper_id}) SET p.last_synced = $timestamp
_mark_paper_synced(g, paper_id, timestamp) ==
    IF g.Paper[paper_id] > 0
    THEN [g EXCEPT !.last_synced = [@ EXCEPT ![paper_id] = timestamp]]
    ELSE g

\* [(paper['id'], x) for x in xs]
PairWithId(paper, xs) == [i \in 1..Len(xs) |-> <<paper.id, xs[i]>>]

\* The body of the inner try for one paper.  failStep = k makes the k-th
\* write transaction raise (it is rolled back); paper['id'] raises KeyError
\* on a document without id.  ok is FALSE when the body raised.
SyncOnePaper(g, paper, sync_timestamp, failStep) ==
    IF failStep = 1 THEN [g |-> g, ok |-> FALSE]
    ELSE
    LET g1 == _create_paper(g, paper) IN
    IF paper.authors # <<>> /\ (paper.id = NoId \/ failStep = 2)
    THEN [g |-> g1, ok |-> FALSE]
    ELSE
    LET g2 == IF paper.authors # <<>>
              THEN _create_authors_batch(g1, PairWithId(paper, paper.authors))
              ELSE g1 IN
    IF paper.categories # <<>> /\ (paper.id = NoId \/ failStep = 3)
    THEN [g |-> g2, ok |-> FALSE]
    ELSE
    LET g3 == IF paper.categories # <<>>
              THEN _create_categories_batch(g2, PairWithId(paper, paper.categories))
              ELSE g2 IN
    IF sync_timestamp # NoTs /\ (paper.id = NoId \/ failStep = 4)
    THEN [g |-> g3, ok |-> FALSE]
    ELSE
    LET g4 == IF sync_timestamp # NoTs
              THEN _mark_paper_synced(g3, paper.id, sync_timestamp)
              ELSE g3 IN
    [g |-> g4, ok |-> TRUE]

\* The inner except clause as it would be without the inner try: the
\* exception leaves the loop and reaches the caller.
OnPaperErrorAbort(st) ==
    [st EXCEPT !.error_count = @ + 1,
               !.outcome = Append(@, "error"),
               !.raised = TRUE]

\* The inner except clause: count the error and go on with the next paper.
OnPaperError(st) ==
    [st EXCEPT !.error_count = @ + 1,
               !.outcome = Append(@, "error")]

\* End of the inner try body: the paper is counted as a success.
OnPaperSuccess(st) ==
    [st EXCEPT !.success_count = @ + 1,
               !.outcome = Append(@, "ok")]

\* for idx, paper in enumerate(papers): try ... except Exception ... continue
RECURSIVE SyncLoop(_, _, _, _, _)
SyncLoop(st, papers, i, sync_timestamp, fault) ==
    IF i > Len(papers) \/ st.raised THEN st
    ELSE LET k == IF fault[1] = i THEN fault[2] ELSE 0
             r == SyncOnePaper(st.g, papers[i], sync_timestamp, k)
             st1 == [st EXCEPT !.g = r.g]
             st2 == IF r.ok THEN OnPaperSuccess(st1) ELSE OnPaperError(st1)
         IN SyncLoop(st2, papers, i + 1, sync_timestamp, fault)

\* The outer except clause: error_count += len(papers) - success_count
OnBatchError(st, papers) ==
    [st EXCEPT !.error_count = @ + (Len(papers) - st.success_count)]

\* Neo4jSync.sync_papers_batch as a function of the graph and its inputs.
SyncResult(g, papers, sync_timestamp, fault, sess) ==
    LET st0 == [g |-> g, success_count |-> 0, error_count |-> 0,
                outcome |-> <<>>, raised |-> FALSE]
    IN IF sess = "open" THEN OnBatchError(st0, papers)
       ELSE LET st == SyncLoop(st0, papers, 1, sync_timestamp, fault)
            IN IF sess = "close" THEN OnBatchError(st, papers) ELSE st

NoCall == [papers |-> <<>>, sess |-> "none", success_count |-> 0, error_count |-> 0,
           outcome |-> <<>>, raised |-> FALSE, clean |-> FALSE, rel |-> "none"]

\* d2 is d with one co-author appended.
AddsCoAuthor(d, d2) ==
    /\ d2.id = d.id
    /\ Len(d2.authors) = Len(d.authors) + 1
    /\ SubSeq(d2.authors, 1, Len(d.authors)) = d.authors
    /\ \A i \in 1..Len(d.authors) : d.authors[i] # d2.authors[Len(d2.authors)]

\* How the batch of a call relates to the call before it (bookkeeping only):
\* "repeat" when it is the batch of the previous call and that call met no
\* injected fault, "coauthor" when both calls sync one paper, the previous one
\* succeeded, and the paper comes back with one co-author added.
Relation(prevCall, papers) ==
    IF prevCall.papers = papers /\ prevCall.clean THEN "repeat"
    ELSE IF /\ Len(papers) = 1 /\ Len(prevCall.papers) = 1
            /\ prevCall.outcome = <<"ok">>
            /\ AddsCoAuthor(prevCall.papers[1], papers[1])
         THEN "coauthor"
         ELSE "none"

\* sync_papers_batch(papers, sync_timestamp), called as main() calls it
sync_papers_batch(papers, sync_timestamp, fault, sess) ==
    /\ calls < MaxCalls
    /\ LET r == SyncResult(graph, papers, sync_timestamp, fault, sess)
       IN /\ graph' = r.g
          /\ last' = [papers |-> papers, sess |-> sess,
                      success_count |-> r.success_count,
                      error_count |-> r.error_count,
                      outcome |-> r.outcome, raised |-> r.raised,
                      clean |-> (fault = NoFault /\ sess # "open"),
                      rel |-> Relation(last, papers)]
    /\ calls' = calls + 1

\* sync_papers(papers): the legacy entry point, no timestamp
sync_papers(papers, fault, sess) ==
    sync_papers_batch(papers, NoTs, fault, sess)

(***************************************************************************)
(* The vector replication: sync_summary_vectors.py                         *)
(***************************************************************************)
PaperIds == {"p1", "p2", "p3"}

\* What the 'summary' field of a stored paper is: a text the embedding model
\* accepts ("ok"), a text on which embed_documents raises ("bad"), the empty
\* string ("empty"), None ("null"); "absent" when the collection holds no
\* paper of that id.
SummaryKinds == {"absent", "ok", "bad", "empty", "null"}

\* The primary stores of the model: p2 may carry a summary the embedding
\* rejects, p3 an empty one or None.
PrimaryStores ==
    {f \in [PaperIds -> SummaryKinds] :
        /\ f["p1"] \in {"absent", "ok"}
        /\ f["p2"] \in {"absent", "ok", "bad"}
        /\ f["p3"] \in {"absent", "ok", "empty", "null"}}

\* paper["categories"], fixed for each paper id
CategoriesOf(id) ==
    CASE id = "p1" -> <<"cs.AI">>
      [] id = "p2" -> <<"cs.LG", "cs.AI">>
      [] OTHER     -> <<>>

\* paper["categories"][0] if ... else "unknown"
PrimaryCategory(id) ==
    IF CategoriesOf(id) # <<>> THEN CategoriesOf(id)[1] ELSE "unknown"

\* .sort([("published", -1)]): p1 is the most recent paper, p3 the oldest.
PublishedOrder == <<"p1", "p2", "p3">>

\* The string hash of CPython is keyed by a seed drawn when the process
\* starts (PYTHONHASHSEED unset): one value per string within a process,
\* unrelated values in two processes.
HashSeeds == {0, 1}
IdNumber(id) == CASE id = "p1" -> 1 [] id = "p2" -> 2 [] OTHER -> 3
PyHash(id, seed) == IdNumber(id) * 37 + seed * 11

\* 10**18 of the point id, scaled to the integers of the model.
PointIdSpace == 1000

\* point_id = int(hash(metadata["paper_id"]) % (10**18))
PointId(paper_id, seed) == PyHash(paper_id, seed) % PointIdSpace

\* str(n) of a non-negative integer: its decimal digits.
RECURSIVE Str(_)
Str(n) == IF n < 10 THEN <<n>> ELSE Str(n \div 10) \o <<n % 10>>

NoRef == <<>>   \* a ledger entry without the qdrant_id field

\* VECTOR_SIZE = 384, "hardcoded to match the actual dimension of the model"
VECTOR_SIZE == 384

\* The dimensions a collection of the Qdrant server may have been created
\* with; NoSize when there is no collection.
VectorSizes == {384, 768}
NoSize == 0

\* tracking_collection.find({}, {"paper_id": 1})
TrackedIds == {e.paper_id : e \in tracking}

\* the paper_id payloads of the collection's points
PointPaperIds == {pt.paper_id : pt \in points}

\* UpsertEntry as an insert_one: an entry is added whatever the ledger holds.
UpsertEntry_Insert(led, id, category, ref) ==
    led \cup {[paper_id |-> id, category |-> category, qdrant_id |-> ref]}

\* update_one / UpdateOne({"paper_id": id}, {"$set": data}, upsert=True):
\* $set replaces the given fields of the matching entry and keeps the others.
UpsertEntry(led, id, category, ref) ==
    IF \E e \in led : e.paper_id = id
    THEN {IF e.paper_id = id
          THEN [e EXCEPT !.category = category,
                         !.qdrant_id = IF ref = NoRef THEN @ ELSE ref]
          ELSE e : e \in led}
    ELSE led \cup {[paper_id |-> id, category |-> category, qdrant_id |-> ref]}

\* client.upsert: a point replaces the point of the same id.
UpsertPoint(pts, id, paper_id) ==
    {pt \in pts : pt.id # id} \cup {[id |-> id, paper_id |-> paper_id]}

RECURSIVE SeqFilter(_, _)
SeqFilter(seq, keep) ==
    IF seq = <<>> THEN <<>>
    ELSE IF Head(seq) \in keep THEN <<Head(seq)>> \o SeqFilter(Tail(seq), keep)
         ELSE SeqFilter(Tail(seq), keep)

SeqRange(seq) == {seq[i] : i \in DOMAIN seq}

Min(a, b) == IF a < b THEN a ELSE b

\* limit=batch_size of client.scroll (1000), scaled to the model
ScrollPageSize == 2

RECURSIVE SortById(_)
SortById(pts) ==
    IF pts = {} THEN <<>>
    ELSE LET m == CHOOSE x \in pts : \A y \in pts : x.id <= y.id
         IN <<m>> \o SortById(pts \ {m})

\* The paper ids the scroll loop has collected when it ends: every page when
\* no call raises, the pages before the raising call otherwise ("Continue
\* with what we have").  failAt = k makes the k-th scroll call raise.
ScrolledIds(pts, failAt) ==
    LET all == SortById(pts)
        n == IF failAt = 0 THEN Len(all)
             ELSE Min(Len(all), (failAt - 1) * ScrollPageSize)
    IN {all[i].paper_id : i \in 1..n}

SyncFaults == {"none", "connect", "scroll1", "scroll2", "delete", "bulk_write"}

ScrollFailAt(fault) ==
    CASE fault = "scroll1" -> 1 [] fault = "scroll2" -> 2 [] OTHER -> 0

\* Whether a scroll call of the reconcile raises: the first call is always
\* made; a second one only when the first page did not hold every point.
ScrollRaises(st, fault) ==
    /\ cfg.TRACKING_ENABLED
    /\ st.collection
    /\ \/ fault = "scroll1"
       \/ fault = "scroll2" /\ Cardinality(st.points) > ScrollPageSize

\* to_remove written with & in place of -.
ToRemove_Intersection(tracking_paper_ids, qdrant_paper_ids) ==
    tracking_paper_ids \cap qdrant_paper_ids

\* delete_many({}) in place of delete_many of to_remove.
ToRemove_All(tracking_paper_ids, qdrant_paper_ids) ==
    tracking_paper_ids

\* to_remove = tracking_paper_ids - qdrant_paper_ids
ToRemove(tracking_paper_ids, qdrant_paper_ids) ==
    tracking_paper_ids \ qdrant_paper_ids

\* AddUntracked without its else branch: an id whose paper is not in MongoDB
\* gets no ledger entry.
RECURSIVE AddUntracked_SkipMissing(_, _)
AddUntracked_SkipMissing(led, to_add) ==
    IF to_add = {} THEN led
    ELSE LET id == CHOOSE x \in to_add : TRUE
         IN AddUntracked_SkipMissing(
                IF papers_collection[id] # "absent"
                THEN UpsertEntry(led, id, PrimaryCategory(id), NoRef)
                ELSE led,
                to_add \ {id})

\* The ledger entries sync_qdrant_with_tracking writes for the ids of to_add:
\* the first category of the paper found in MongoDB, "unknown" for a paper
\* that is not there; no qdrant_id field.
RECURSIVE AddUntracked(_, _)
AddUntracked(led, to_add) ==
    IF to_add = {} THEN led
    ELSE LET id == CHOOSE x \in to_add : TRUE
             category == IF papers_collection[id] # "absent" THEN PrimaryCategory(id)
                         ELSE "unknown"
         IN AddUntracked(UpsertEntry(led, id, category, NoRef), to_add \ {id})

\* sync_qdrant_with_tracking() on st = [collection, points, tracking].
SyncTracking(st, fault) ==
    IF ~cfg.TRACKING_ENABLED \/ fault = "connect" THEN st
    ELSE IF ~st.collection
         THEN [st EXCEPT !.collection = TRUE, !.vector_size = VECTOR_SIZE]
    ELSE
    LET qdrant_paper_ids == ScrolledIds(st.points, ScrollFailAt(fault))
        tracking_paper_ids == {e.paper_id : e \in st.tracking}
        to_remove == ToRemove(tracking_paper_ids, qdrant_paper_ids)
        to_add == qdrant_paper_ids \ tracking_paper_ids
        kept == {e \in st.tracking : e.paper_id \notin to_remove}
    IN IF qdrant_paper_ids = {} THEN st
       ELSE IF to_remove # {} /\ fault = "delete" THEN st
       ELSE IF to_add # {} /\ fault = "bulk_write"
            THEN [st EXCEPT !.tracking = kept]
            ELSE [st EXCEPT !.tracking = AddUntracked(kept, to_add)]

\* "kill1", "kill2": the process is stopped (SIGINT, SIGKILL, power loss) at
\* the boundary after its first, its second batch.  KeyboardInterrupt is not
\* an Exception, so no except clause of process_papers catches it.
\* "mongo": MongoDB cannot be reached.  MongoClient() connects lazily: with
\* tracking enabled the create_index call of the module body raises and the
\* script ends there; without it the first contact is count_documents of
\* process_papers, after the collection was reset, and the exception leaves
\* the function.
\* "partial": the first client.upsert call returns without raising although
\* the server applied only the first point of the request.
ProcessFaults == {"none", "connect", "reset_list", "reset_create", "upsert", "bulk_write",
                  "kill1", "kill2", "mongo", "partial"}

KillAfter(fault) ==
    CASE fault = "kill1" -> 1 [] fault = "kill2" -> 2 [] OTHER -> 0

\* reset_qdrant_collection(client): delete the collection when it exists,
\* create it again; FALSE (ok) when a call raised.
ResetCollection(st, fault) ==
    IF fault = "reset_list" THEN [st |-> st, ok |-> FALSE]
    ELSE IF fault = "reset_create"
         THEN [st |-> [st EXCEPT !.collection = FALSE, !.vector_size = NoSize,
                                 !.points = {}],
               ok |-> FALSE]
         ELSE [st |-> [st EXCEPT !.collection = TRUE, !.vector_size = VECTOR_SIZE,
                                 !.points = {}],
               ok |-> TRUE]

\* The papers create_query_filter() matches.  The dict literal
\* {"$exists": True, "$ne": None, "$ne": ""} keeps the last of its two "$ne"
\* keys: the summary field exists and is not "", so None matches.
MatchesFilter(id) == papers_collection[id] \in {"ok", "bad", "null"}

\* SelectPapers without Step 3, the $nin exclusion of the tracked ids.
SelectPapers_NoExclusion(led) ==
    LET matching == {id \in PaperIds : MatchesFilter(id)}
        sorted == SeqFilter(PublishedOrder, matching)
        limit == IF cfg.papers_per_category > 0 THEN cfg.papers_per_category
                 ELSE Cardinality(matching)
    IN SubSeq(sorted, 1, Min(limit, Len(sorted)))

\* create_query_filter() plus the $nin exclusion, sorted and limited:
\* the papers a run retrieves, most recent first.
SelectPapers(led) ==
    LET existing_paper_ids == IF cfg.TRACKING_ENABLED
                              THEN {e.paper_id : e \in led} ELSE {}
        matching == {id \in PaperIds : /\ MatchesFilter(id)
                                       /\ id \notin existing_paper_ids}
        sorted == SeqFilter(PublishedOrder, matching)
        limit == IF cfg.papers_per_category > 0 THEN cfg.papers_per_category
                 ELSE Cardinality(matching)
    IN SubSeq(sorted, 1, Min(limit, Len(sorted)))

RECURSIVE UpsertBatch(_, _, _)
UpsertBatch(pts, ids, seed) ==
    IF ids = <<>> THEN pts
    ELSE UpsertBatch(UpsertPoint(pts, PointId(Head(ids), seed), Head(ids)),
                     Tail(ids), seed)

RECURSIVE TrackBatch(_, _, _)
TrackBatch(led, ids, seed) ==
    IF ids = <<>> THEN led
    ELSE TrackBatch(UpsertEntry(led, Head(ids), PrimaryCategory(Head(ids)),
                                Str(PointId(Head(ids), seed))),
                    Tail(ids), seed)

\* Documents without the 'if not summary: continue' of the loop.
Documents_All(batch) == batch

\* for paper in batch: if not summary: continue; documents.append(summary):
\* the papers of the batch whose summary is neither None nor "".
Documents(batch) ==
    SeqFilter(batch, {id \in PaperIds : papers_collection[id] \in {"ok", "bad"}})

\* The points of a client.upsert request the server applies.
Applied(documents, partial) ==
    IF partial /\ Len(documents) > 1 THEN SubSeq(documents, 1, 1) ELSE documents

\* The body of the batch loop for one batch: the documents with a summary
\* are embedded in one embed_documents call and upserted in one
\* client.upsert call, inside one try; an exception of either call is
\* printed and the loop goes on with the next batch.  The value client.upsert
\* returns (operation_info) is not read.
ProcessBatch(r, batch, seed, fault) ==
    LET documents == Documents(batch)
        applied == Applied(documents, fault = "partial" /\ r.upserts = 0)
    IN IF documents = <<>> THEN r
       ELSE IF \E i \in DOMAIN documents : papers_collection[documents[i]] = "bad" THEN r
       ELSE IF fault = "upsert" /\ r.upserts = 0 THEN [r EXCEPT !.upserts = @ + 1]
       ELSE [r EXCEPT !.points = UpsertBatch(@, applied, seed),
                      !.pending = IF cfg.TRACKING_ENABLED THEN @ \o documents ELSE @,
                      !.processed = @ + Len(documents),
                      !.written = @ \cup {<<applied[i], PointId(applied[i], seed)>> :
                                            i \in DOMAIN applied},
                      !.rejected = @ \cup (SeqRange(documents) \ SeqRange(applied)),
                      !.upserts = @ + 1]

\* for i in range(0, len(papers), batch_size)
RECURSIVE BatchLoop(_, _, _, _)
BatchLoop(r, todo, seed, fault) ==
    IF todo = <<>> THEN r
    ELSE IF r.batches > 0 /\ KillAfter(fault) = r.batches
         THEN [r EXCEPT !.killed = TRUE]
    ELSE LET n == Min(cfg.batch_size, Len(todo))
         IN BatchLoop(ProcessBatch([r EXCEPT !.batches = @ + 1],
                                   SubSeq(todo, 1, n), seed, fault),
                      SubSeq(todo, n + 1, Len(todo)), seed, fault)

\* process_papers() in a process whose string hash is keyed by seed.
ProcessResult(st, seed, fault) ==
    LET r0 == [collection |-> st.collection, vector_size |-> st.vector_size,
               points |-> st.points, tracking |-> st.tracking, selected |-> <<>>, processed |-> 0,
               pending |-> <<>>, written |-> {}, rejected |-> {}, upserts |-> 0,
               batches |-> 0, killed |-> FALSE, raised |-> FALSE]
    IN IF ~cfg.PAPER_SUMMARIES_ENABLED \/ fault = "connect" THEN r0
       ELSE IF fault = "mongo" /\ cfg.TRACKING_ENABLED THEN [r0 EXCEPT !.raised = TRUE]
       ELSE
       LET reset == ResetCollection(st, fault)
           r1 == [r0 EXCEPT !.collection = reset.st.collection,
                            !.vector_size = reset.st.vector_size,
                            !.points = reset.st.points]
       IN IF ~reset.ok THEN r1
          ELSE IF fault = "mongo" THEN [r1 EXCEPT !.raised = TRUE]
          ELSE
          LET selected == SelectPapers(st.tracking)
              r2 == BatchLoop([r1 EXCEPT !.selected = selected], selected, seed, fault)
              r3 == IF /\ ~r2.killed
                       /\ cfg.TRACKING_ENABLED /\ r2.pending # <<>> /\ fault # "bulk_write"
                    THEN [r2 EXCEPT !.tracking = TrackBatch(@, r2.pending, seed)]
                    ELSE r2
              synced == SyncTracking([collection |-> r3.collection,
                                      vector_size |-> r3.vector_size,
                                      points |-> r3.points,
                                      tracking |-> r3.tracking], "none")
          IN IF ~r2.killed /\ cfg.SYNC_WITH_QDRANT /\ r3.processed > 0
             THEN [r3 EXCEPT !.collection = synced.collection,
                             !.vector_size = synced.vector_size,
                             !.tracking = synced.tracking]
             ELSE r3

Store == [collection |-> collection, vector_size |-> vector_size,
          points |-> points, tracking |-> tracking]

\* What is kept of the latest operation.  written: the (paper, point id)
\* pairs the server applied; rejected: the papers of an upsert request the
\* server did not apply.  raised: an exception left the
\* function and ended the script; killed: the run was stopped at a
\* batch boundary; interrupted: some run so far was; scroll_raised: a scroll
\* call of the reconcile raised; cut: the reconcile
\* stopped after its delete_many and before its bulk_write; would: the ids an
\* uninterrupted reconcile would have left in the ledger; again: a complete
\* reconcile directly after a complete reconcile.
NoOp == [op |-> "none", seed |-> 0, fault |-> "none", selected |-> <<>>,
         processed |-> 0, written |-> {}, rejected |-> {}, raised |-> FALSE,
         killed |-> FALSE, interrupted |-> FALSE,
         scroll_raised |-> FALSE, cut |-> FALSE, would |-> {}, again |-> FALSE]

OpDone(op, fault) ==
    [NoOp EXCEPT !.op = op, !.fault = fault, !.interrupted = vlast.interrupted]

LedgerIds(led) == {e.paper_id : e \in led}

\* python sync_summary_vectors.py: a new process runs process_papers()
process_papers(seed, fault) ==
    /\ ops < MaxOps
    /\ LET r == ProcessResult(Store, seed, fault)
       IN /\ collection' = r.collection
          /\ vector_size' = r.vector_size
          /\ points' = r.points
          /\ tracking' = r.tracking
          /\ vlast' = [OpDone("process_papers", fault) EXCEPT
                          !.seed = seed,
                          !.selected = r.selected,
                          !.processed = r.processed,
                          !.written = r.written,
                          !.rejected = r.rejected,
                          !.raised = r.raised,
                          !.killed = r.killed,
                          !.interrupted = @ \/ r.killed]
    /\ ops' = ops + 1
    /\ UNCHANGED <<papers_collection, cfg>>

\* sync_qdrant_with_tracking() called on its own
sync_qdrant_with_tracking(fault) ==
    /\ ops < MaxOps
    /\ LET r == SyncTracking(Store, fault)
           whole == SyncTracking(Store, "none")
           raised == ScrollRaises(Store, fault)
           cut == /\ fault = "bulk_write"
                  /\ LedgerIds(tracking) \ LedgerIds(r.tracking) # {}
                  /\ LedgerIds(whole.tracking) \ LedgerIds(r.tracking) # {}
       IN /\ collection' = r.collection
          /\ vector_size' = r.vector_size
          /\ tracking' = r.tracking
          /\ vlast' = [OpDone("sync_qdrant_with_tracking", fault) EXCEPT
                          !.scroll_raised = raised,
                          !.cut = cut,
                          !.would = IF cut THEN LedgerIds(whole.tracking) ELSE {},
                          !.again = /\ fault = "none"
                                    /\ vlast.op = "sync_qdrant_with_tracking"
                                    /\ vlast.fault = "none"]
    /\ ops' = ops + 1
    /\ UNCHANGED <<papers_collection, cfg, points>>

\* mark_paper_as_processed(paper_id, category)
mark_paper_as_processed(paper_id, category) ==
    /\ ops < MaxOps
    /\ cfg.TRACKING_ENABLED
    /\ tracking' = UpsertEntry(tracking, paper_id, category, NoRef)
    /\ vlast' = OpDone("mark_paper_as_processed", "none")
    /\ ops' = ops + 1
    /\ UNCHANGED <<papers_collection, cfg, collection, vector_size, points>>

\* The ingestion feed stores, rewrites or drops one paper of db.papers.
IngestPaper(id, kind) ==
    /\ ops < MaxOps
    /\ papers_collection[id] # kind
    /\ [papers_collection EXCEPT ![id] = kind] \in PrimaryStores
    /\ papers_collection' = [papers_collection EXCEPT ![id] = kind]
    /\ vlast' = OpDone("ingest", "none")
    /\ ops' = ops + 1
    /\ UNCHANGED <<cfg, collection, vector_size, points, tracking>>

\* Another client of the Qdrant server creates the collection, as process_pdf
\* of sync_qdrant.py creates the one it is configured with: with the
\* dimension of its own embedding model.
create_collection(size) ==
    /\ ops < MaxOps
    /\ ~collection
    /\ collection' = TRUE
    /\ vector_size' = size
    /\ vlast' = OpDone("create_collection", "none")
    /\ ops' = ops + 1
    /\ UNCHANGED <<papers_collection, cfg, points, tracking>>

\* Module import: the configuration is read, MongoDB is whatever the
\* ingestion left, Qdrant holds no collection yet, the ledger is empty.
VecInit ==
    /\ papers_collection \in PrimaryStores
    /\ cfg \in [PAPER_SUMMARIES_ENABLED : {TRUE},
                TRACKING_ENABLED : BOOLEAN,
                SYNC_WITH_QDRANT : BOOLEAN,
                batch_size : {1, MaxBatchSize},
                papers_per_category : {0}]
    /\ collection = FALSE
    /\ vector_size = NoSize
    /\ points = {}
    /\ tracking = {}
    /\ ops = 0
    /\ vlast = NoOp

ProcessStep ==
    /\ \E seed \in HashSeeds : \E fault \in ProcessFaults : process_papers(seed, fault)
    /\ UNCHANGED <<gvars, svars, cvars, pvars>>

ReconcileStep ==
    /\ \E fault \in SyncFaults : sync_qdrant_with_tracking(fault)
    /\ UNCHANGED <<gvars, svars, cvars, pvars>>

\* A caller marks a paper it has stored in Qdrant.
MarkStep ==
    /\ \E id \in PointPaperIds : mark_paper_as_processed(id, PrimaryCategory(id))
    /\ UNCHANGED <<gvars, svars, cvars, pvars>>

IngestStep ==
    /\ \E id \in PaperIds : \E kind \in SummaryKinds : IngestPaper(id, kind)
    /\ UNCHANGED <<gvars, svars, cvars, pvars>>

CreateStep ==
    /\ \E size \in VectorSizes : create_collection(size)
    /\ UNCHANGED <<gvars, svars, cvars, pvars>>

VecNext == ProcessStep \/ ReconcileStep \/ MarkStep \/ IngestStep \/ CreateStep

(***************************************************************************)
(* The paged scan of db.papers: main() of sync_mongo_to_neo4j.py           *)
(***************************************************************************)
NoScan == [state |-> "idle", total_count |-> 0, batch_size |-> 1, skip |-> 0,
           pages |-> <<>>, stayed |-> {}, inserts |-> 0, deletes |-> 0]

\* find({}).skip(skip).limit(limit + 1): one document too many per page.
Page_LimitPlusOne(store, skip, limit) ==
    SubSeq(store, skip + 1, Min(skip + limit + 1, Len(store)))

\* list(db.papers.find({}).skip(skip).limit(limit))
Page(store, skip, limit) ==
    SubSeq(store, skip + 1, Min(skip + limit, Len(store)))

\* range(0, total_count, batch_size + 1): the step one too large.
NextSkip_StepPlusOne(skip, batch_size) == skip + batch_size + 1

\* for skip in range(0, total_count, batch_size)
NextSkip(skip, batch_size) == skip + batch_size

\* total_count = db.papers.count_documents({}); the loop has no iteration
\* when the collection is empty.
StartScan(batch_size) ==
    /\ scan.state = "idle"
    /\ scan' = [NoScan EXCEPT
                  !.state = IF Len(db_papers) = 0 THEN "done" ELSE "running",
                  !.total_count = Len(db_papers),
                  !.batch_size = batch_size,
                  !.stayed = SeqRange(db_papers)]
    /\ UNCHANGED db_papers

\* One iteration of the loop: fetch the page at skip; an empty page breaks
\* the loop, the page at the last skip value below total_count ends it.
FetchPage ==
    /\ scan.state = "running"
    /\ LET papers_batch == Page(db_papers, scan.skip, scan.batch_size)
           next == NextSkip(scan.skip, scan.batch_size)
       IN scan' = IF papers_batch = <<>>
                  THEN [scan EXCEPT !.state = "done"]
                  ELSE [scan EXCEPT
                          !.pages = Append(@, papers_batch),
                          !.skip = next,
                          !.state = IF next >= scan.total_count THEN "done"
                                    ELSE "running"]
    /\ UNCHANGED db_papers

InsertAt(store, pos, id) ==
    SubSeq(store, 1, pos - 1) \o <<id>> \o SubSeq(store, pos, Len(store))

RemoveAt(store, pos) ==
    SubSeq(store, 1, pos - 1) \o SubSeq(store, pos + 1, Len(store))

\* Another client upserts a new paper while the scan runs.  find({}) has no
\* sort, so where the new document stands in the order of the scan is the
\* choice of the storage engine: any position.
InsertPaper(pos) ==
    /\ scan.state = "running"
    /\ scan.inserts + scan.deletes < MaxWrites
    /\ db_papers' = InsertAt(db_papers, pos, MaxStored + scan.inserts + 1)
    /\ scan' = [scan EXCEPT !.inserts = @ + 1]

\* Another client deletes a paper while the scan runs.
DeletePaper(pos) ==
    /\ scan.state = "running"
    /\ scan.inserts + scan.deletes < MaxWrites
    /\ db_papers' = RemoveAt(db_papers, pos)
    /\ scan' = [scan EXCEPT !.deletes = @ + 1,
                            !.stayed = @ \ {db_papers[pos]}]

\* db.papers holds up to MaxStored papers; no scan has started.
ScanInit ==
    /\ db_papers \in {[i \in 1..n |-> i] : n \in 0..MaxStored}
    /\ scan = NoScan

ScanAtRest ==
    /\ db_papers = <<>>
    /\ scan = NoScan

StartStep ==
    /\ \E batch_size \in 1..MaxPage : StartScan(batch_size)
    /\ UNCHANGED <<gvars, vvars, cvars, pvars>>

FetchStep ==
    /\ FetchPage
    /\ UNCHANGED <<gvars, vvars, cvars, pvars>>

InsertStep ==
    /\ \E pos \in 1..(Len(db_papers) + 1) : InsertPaper(pos)
    /\ UNCHANGED <<gvars, vvars, cvars, pvars>>

DeleteStep ==
    /\ \E pos \in 1..Len(db_papers) : DeletePaper(pos)
    /\ UNCHANGED <<gvars, vvars, cvars, pvars>>

ScanNext == StartStep \/ FetchStep \/ InsertStep \/ DeleteStep

GraphInit ==
    /\ graph = EmptyGraph
    /\ calls = 0
    /\ last = NoCall

\* main() of sync_mongo_to_neo4j.py: one page of db.papers, the run's timestamp.
\* A fault is injected into one write transaction, or into the session.
SyncBatchStep ==
    /\ \E papers \in Batches : \E fault \in Faults(papers) : \E sess \in SessionFaults :
          /\ sess # "none" => fault = NoFault
          /\ sync_papers_batch(papers, RunTs, fault, sess)
    /\ UNCHANGED <<vvars, svars, cvars, pvars>>

SyncLegacyStep ==
    /\ \E papers \in Batches : sync_papers(papers, NoFault, "none")
    /\ UNCHANGED <<vvars, svars, cvars, pvars>>

GraphNext == SyncBatchStep \/ SyncLegacyStep

(***************************************************************************)
(* Two process_papers processes on one collection                          *)
(* (the API starts the script with subprocess.Popen and takes no lock)     *)
(***************************************************************************)
Procs == {"A", "B"}

\* A process that has not started: pc is the call it makes next.
\* snapshot: tracking_records as Step 1 read them; todo: the papers still to
\* batch; pending: bulk_tracking_operations; written: the (paper, point id)
\* pairs of the batches counted in papers_processed; overlapped: the process
\* made a call while the other process was between its first and last call.
IdleRun == [pc |-> "idle", seed |-> 0, snapshot |-> {}, todo |-> <<>>,
            pending |-> <<>>, processed |-> 0, written |-> {},
            overlapped |-> FALSE]

Other(p) == CHOOSE q \in Procs : q # p

Running(p) == runs[p].pc \notin {"idle", "done"}

\* The process p goes on with locals l.
Advance(p, l) ==
    runs' = [runs EXCEPT ![p] = [l EXCEPT !.overlapped = @ \/ Running(Other(p))]]

\* After the batch loop: Step 8 when there are ledger operations, else the
\* sync when something was processed, else the return.
AfterLoop(l) ==
    IF cfg.TRACKING_ENABLED /\ l.pending # <<>> THEN "bulk_write"
    ELSE IF cfg.SYNC_WITH_QDRANT /\ l.processed > 0 THEN "sync"
    ELSE "done"

\* reset_qdrant_collection: client.get_collections()
ConcList(p, seed) ==
    /\ runs[p].pc = "idle"
    /\ Advance(p, [runs[p] EXCEPT !.seed = seed,
                                  !.pc = IF collection THEN "delete" ELSE "create"])
    /\ UNCHANGED <<collection, vector_size, points, tracking>>

\* reset_qdrant_collection: client.delete_collection(...), which returns
\* without raising when the collection is gone already.
ConcDelete(p) ==
    /\ runs[p].pc = "delete"
    /\ collection' = FALSE
    /\ vector_size' = NoSize
    /\ points' = {}
    /\ Advance(p, [runs[p] EXCEPT !.pc = "create"])
    /\ UNCHANGED tracking

\* reset_qdrant_collection: client.create_collection(...).  It raises when
\* the collection exists: the reset returns False and the run returns
\* {"processed": 0}.
ConcCreate(p) ==
    /\ runs[p].pc = "create"
    /\ IF collection
       THEN /\ Advance(p, [runs[p] EXCEPT !.pc = "done"])
            /\ UNCHANGED <<collection, vector_size>>
       ELSE /\ collection' = TRUE
            /\ vector_size' = VECTOR_SIZE
            /\ Advance(p, [runs[p] EXCEPT !.pc = "ledger"])
    /\ UNCHANGED <<points, tracking>>

\* Step 1: tracking_collection.find({}, {"paper_id": 1})
ConcReadLedger(p) ==
    /\ runs[p].pc = "ledger"
    /\ Advance(p, [runs[p] EXCEPT !.snapshot = tracking, !.pc = "select"])
    /\ UNCHANGED <<collection, vector_size, points, tracking>>

\* Steps 2 to 4: count_documents and find with the $nin of the ids read
ConcSelect(p) ==
    /\ runs[p].pc = "select"
    /\ LET selected == SelectPapers(runs[p].snapshot)
       IN Advance(p, [runs[p] EXCEPT !.snapshot = {},
                                     !.todo = selected,
                                     !.pc = IF selected = <<>> THEN "done" ELSE "batch"])
    /\ UNCHANGED <<collection, vector_size, points, tracking>>

\* One pass of the batch loop: client.upsert raises when the collection is
\* gone, and the batch is skipped.
ConcBatch(p) ==
    /\ runs[p].pc = "batch"
    /\ LET l == runs[p]
           n == Min(cfg.batch_size, Len(l.todo))
           r0 == [points |-> points, pending |-> l.pending, processed |-> l.processed,
                  written |-> l.written, rejected |-> {}, upserts |-> 0]
           r == ProcessBatch(r0, SubSeq(l.todo, 1, n), l.seed,
                             IF collection THEN "none" ELSE "upsert")
           l1 == [l EXCEPT !.todo = SubSeq(l.todo, n + 1, Len(l.todo)),
                           !.pending = r.pending,
                           !.processed = r.processed,
                           !.written = r.written]
       IN /\ points' = r.points
          /\ Advance(p, [l1 EXCEPT !.pc = IF l1.todo = <<>> THEN AfterLoop(l1)
                                          ELSE "batch"])
    /\ UNCHANGED <<collection, vector_size, tracking>>

\* Step 8: tracking_collection.bulk_write(bulk_tracking_operations)
ConcBulkWrite(p) ==
    /\ runs[p].pc = "bulk_write"
    /\ tracking' = TrackBatch(tracking, runs[p].pending, runs[p].seed)
    /\ Advance(p, [runs[p] EXCEPT !.pending = <<>>,
                                  !.pc = IF cfg.SYNC_WITH_QDRANT /\ runs[p].processed > 0
                                         THEN "sync" ELSE "done"])
    /\ UNCHANGED <<collection, vector_size, points>>

\* sync_qdrant_with_tracking() at the end of the run, taken in one step.
ConcSync(p) ==
    /\ runs[p].pc = "sync"
    /\ LET r == SyncTracking(Store, "none")
       IN /\ collection' = r.collection
          /\ vector_size' = r.vector_size
          /\ tracking' = r.tracking
    /\ Advance(p, [runs[p] EXCEPT !.pc = "done"])
    /\ UNCHANGED points

ConcAtRest == runs = [p \in Procs |-> IdleRun]

\* Two scripts are about to be started on the stores a previous run may
\* have left: tracking is enabled, MongoDB holds p1.
ConcInit ==
    /\ papers_collection \in {f \in PrimaryStores : f["p1"] = "ok"}
    /\ cfg \in [PAPER_SUMMARIES_ENABLED : {TRUE},
                TRACKING_ENABLED : {TRUE},
                SYNC_WITH_QDRANT : BOOLEAN,
                batch_size : {1, MaxBatchSize},
                papers_per_category : {0}]
    /\ collection = FALSE
    /\ vector_size = NoSize
    /\ points = {}
    /\ tracking = {}
    /\ ops = 0
    /\ vlast = NoOp
    /\ ConcAtRest

ConcRest == UNCHANGED <<gvars, svars, pvars, papers_collection, cfg, ops, vlast>>

ConcListStep ==
    /\ \E p \in Procs : \E seed \in HashSeeds : ConcList(p, seed)
    /\ ConcRest

ConcDeleteStep ==
    /\ \E p \in Procs : ConcDelete(p)
    /\ ConcRest

ConcCreateStep ==
    /\ \E p \in Procs : ConcCreate(p)
    /\ ConcRest

ConcReadLedgerStep ==
    /\ \E p \in Procs : ConcReadLedger(p)
    /\ ConcRest

ConcSelectStep ==
    /\ \E p \in Procs : ConcSelect(p)
    /\ ConcRest

ConcBatchStep ==
    /\ \E p \in Procs : ConcBatch(p)
    /\ ConcRest

ConcBulkWriteStep ==
    /\ \E p \in Procs : ConcBulkWrite(p)
    /\ ConcRest

ConcSyncStep ==
    /\ \E p \in Procs : ConcSync(p)
    /\ ConcRest

ConcNext ==
    \/ ConcListStep \/ ConcDeleteStep \/ ConcCreateStep \/ ConcReadLedgerStep
    \/ ConcSelectStep \/ ConcBatchStep \/ ConcBulkWriteStep \/ ConcSyncStep

(***************************************************************************)
(* The PDF replication: sync_qdrant.py                                     *)
(***************************************************************************)
PdfFiles == {"a.pdf", "b.pdf", "c.pdf"}

\* os.listdir(category_dir), in one fixed order
ListingOrder == <<"a.pdf", "b.pdf", "c.pdf">>

\* len(text_splitter.split_documents(pages)) of each file
ChunksOf(file) == CASE file = "a.pdf" -> 2 [] file = "b.pdf" -> 1 [] OTHER -> 2

FileNumber(file) == CASE file = "a.pdf" -> 1 [] file = "b.pdf" -> 2 [] OTHER -> 3

\* id = hash(f"{pdf_path}_{i}") % (2**63-1), the string hash keyed by the
\* seed of the process
PdfPointId(file, i, seed) == ((FileNumber(file) * 10 + i) * 37 + seed * 11) % PointIdSpace

\* What a process_all_categories run may meet: PyPDFLoader raises on one
\* file ("load"); Qdrant cannot be reached during the run ("qdrant"); the
\* upsert of the second chunk of one file raises ("upsert").
PdfFaults == {"none", "load", "qdrant", "upsert"}

\* The chunks of a file whose qdrant.upsert calls returned.
StoredChunks(file, fault) ==
    CASE fault = "qdrant" -> {}
      [] fault = "upsert" /\ ChunksOf(file) > 1 -> {1}
      [] OTHER -> 1..ChunksOf(file)

\* process_pdf(pdf_path): an exception of the loader leaves the function;
\* everything from the embedding model to the last upsert sits in one try
\* whose except prints "Continuing with extraction-only mode" and goes on,
\* so the function returns its chunks whatever was stored.
process_pdf(pts, file, seed, fault) ==
    IF fault = "load" THEN [points |-> pts, raised |-> TRUE, chunks |-> 0]
    ELSE [points |-> {pt \in pts : \A i \in StoredChunks(file, fault) :
                                      pt.id # PdfPointId(file, i, seed)}
                     \cup {[id |-> PdfPointId(file, i, seed), source |-> file, chunk |-> i] :
                             i \in StoredChunks(file, fault)},
          raised |-> FALSE, chunks |-> ChunksOf(file)]

\* mark_pdf_as_processed: update_one({"file_id", "category"}, $set, upsert=True)
mark_pdf_as_processed(led, file, chunk_count) ==
    {e \in led : e.file_id # file} \cup {[file_id |-> file, chunk_count |-> chunk_count]}

\* is_pdf_processed(file_path, category)
is_pdf_processed(led, file) == \E e \in led : e.file_id = file

\* The loop of process_all_categories over the unprocessed files of the
\* category: process_pdf, then mark_pdf_as_processed, in one try per file.
\* The fault of the run hits the file 'target' ("qdrant": every file).
RECURSIVE PdfLoop(_, _, _, _, _)
PdfLoop(st, pdf_files, seed, fault, target) ==
    IF pdf_files = <<>> THEN st
    ELSE LET file == Head(pdf_files)
             met == IF fault = "qdrant" \/ file = target THEN fault ELSE "none"
             r == process_pdf(st.points, file, seed, met)
             st1 == IF r.raised THEN st
                    ELSE [st EXCEPT !.points = r.points,
                                    !.tracking = mark_pdf_as_processed(@, file, r.chunks),
                                    !.marked = @ \cup {file}]
         IN PdfLoop(st1, Tail(pdf_files), seed, fault, target)

NoPdfRun == [op |-> "none", fault |-> "none", marked |-> {}]

\* process_all_categories() with tracking enabled, one category and no
\* papers_per_category limit.  Its sync_qdrant_with_tracking() only reads
\* and prints.
process_all_categories(seed, fault, target) ==
    /\ pdf_runs < MaxPdfRuns
    /\ LET unprocessed_files ==
               SeqFilter(ListingOrder,
                         {f \in pdf_dir : ~is_pdf_processed(pdf_tracking, f)})
           r == PdfLoop([points |-> pdf_points, tracking |-> pdf_tracking, marked |-> {}],
                        unprocessed_files, seed, fault, target)
       IN /\ pdf_points' = r.points
          /\ pdf_tracking' = r.tracking
          /\ pdf_last' = [op |-> "process_all_categories", fault |-> fault,
                          marked |-> r.marked]
    /\ pdf_runs' = pdf_runs + 1
    /\ UNCHANGED pdf_dir

\* download_pdfs.py writes one more file into the category directory.
download_pdf(file) ==
    /\ pdf_runs < MaxPdfRuns
    /\ file \notin pdf_dir
    /\ pdf_dir' = pdf_dir \cup {file}
    /\ pdf_last' = [NoPdfRun EXCEPT !.op = "download_pdf"]
    /\ pdf_runs' = pdf_runs + 1
    /\ UNCHANGED <<pdf_points, pdf_tracking>>

\* The directory holds what earlier downloads left; nothing is stored yet.
PdfInit ==
    /\ pdf_dir \in SUBSET PdfFiles
    /\ pdf_points = {}
    /\ pdf_tracking = {}
    /\ pdf_runs = 0
    /\ pdf_last = NoPdfRun

PdfAtRest == PdfInit /\ pdf_dir = {}

ProcessAllStep ==
    /\ \E seed \in HashSeeds : \E fault \in PdfFaults : \E target \in PdfFiles :
          /\ fault \in {"none", "qdrant"} => target = "a.pdf"
          /\ process_all_categories(seed, fault, target)
    /\ UNCHANGED <<gvars, vvars, svars, cvars>>

DownloadStep ==
    /\ \E file \in PdfFiles : download_pdf(file)
    /\ UNCHANGED <<gvars, vvars, svars, cvars>>

PdfNext == ProcessAllStep \/ DownloadStep

\* The vector side at rest, for the behaviours that move the graph only.
VecAtRest ==
    /\ VecInit
    /\ papers_collection = [id \in PaperIds |-> "absent"]
    /\ cfg.TRACKING_ENABLED /\ cfg.SYNC_WITH_QDRANT /\ cfg.batch_size = 1

\* Neo4jSync is constructed over an empty database; the vector side rests.
InitGraph == GraphInit /\ VecAtRest /\ ScanAtRest /\ ConcAtRest /\ PdfAtRest

SpecGraph == InitGraph /\ [][GraphNext]_vars

\* sync_summary_vectors.py is imported; the graph side rests.
InitVec == VecInit /\ GraphInit /\ ScanAtRest /\ ConcAtRest /\ PdfAtRest

SpecVec == InitVec /\ [][VecNext]_vars

\* main() is about to scan db.papers; the graph and the vector side rest.
InitScan == ScanInit /\ GraphInit /\ VecAtRest /\ ConcAtRest /\ PdfAtRest

SpecScan == InitScan /\ [][ScanNext]_vars

\* Two sync_summary_vectors.py processes are started; the rest is at rest.
InitConc == ConcInit /\ GraphInit /\ ScanAtRest /\ PdfAtRest

SpecConc == InitConc /\ [][ConcNext]_vars

\* sync_qdrant.py is imported; the rest is at rest.
InitPdf == PdfInit /\ GraphInit /\ VecAtRest /\ ScanAtRest /\ ConcAtRest

SpecPdf == InitPdf /\ [][PdfNext]_vars

(***************************************************************************)
(* Properties of the graph replication (checked under SpecGraph)           *)
(***************************************************************************)
RECURSIVE CountOf(_, _)
CountOf(seq, x) ==
    IF seq = <<>> THEN 0
    ELSE (IF Head(seq) = x THEN 1 ELSE 0) + CountOf(Tail(seq), x)

RECURSIVE SumOver(_, _)
SumOver(bag, keys) ==
    IF keys = {} THEN 0
    ELSE LET k == CHOOSE x \in keys : TRUE
         IN bag[k] + SumOver(bag, keys \ {k})

BagTotal(bag) == SumOver(bag, DOMAIN bag)

\* The nodes and edges of the graph, without the node properties.
NodesAndEdges(g) == <<g.Paper, g.Author, g.Category, g.AUTHORED, g.IN_CATEGORY>>

\* C3: an exception raised while writing paper i is caught and counted as
\* exactly one error, every later paper of the batch is still processed, and
\* no exception caused by a single paper leaves sync_papers_batch.  (Calls
\* whose session itself fails are the subject of the count claim, not of
\* this one; no exception leaves those either.)
C3_PaperErrorIsolated ==
    /\ ~last.raised
    /\ last.sess = "none" =>
         /\ Len(last.outcome) = Len(last.papers)
         /\ last.error_count = CountOf(last.outcome, "error")
         /\ last.success_count = CountOf(last.outcome, "ok")

\* A call where the first paper raised and the second was still written.
C3_Witness ==
    /\ last.sess = "none"
    /\ last.outcome = <<"error", "ok">>
    /\ last.error_count = 1
    /\ graph.Paper[last.papers[2].id] = 1

\* C4: a call with the batch of the call before it (which met no injected
\* fault) leaves the Paper, Author and Category nodes and the AUTHORED and
\* IN_CATEGORY edges as the first call left them.
C4_SameBatchTwice ==
    [][(calls' = calls + 1 /\ last'.rel = "repeat")
         => NodesAndEdges(graph') = NodesAndEdges(graph)]_gvars

\* The second call of a two-paper batch has returned.
C4_Witness ==
    /\ last.rel = "repeat"
    /\ Len(last.papers) = 2
    /\ last.success_count = 2
    /\ BagTotal(graph.AUTHORED) >= 2

\* C5: at most one Paper node per id, one Author node per name, one Category
\* node per name, and one AUTHORED or IN_CATEGORY edge per pair of nodes.
C5_NoDuplicates ==
    /\ \A k \in PaperKeys : graph.Paper[k] <= 1
    /\ \A a \in Authors : graph.Author[a] <= 1
    /\ \A c \in Categories : graph.Category[c] <= 1
    /\ \A e \in Authors \X PaperKeys : graph.AUTHORED[e] <= 1
    /\ \A e \in PaperKeys \X Categories : graph.IN_CATEGORY[e] <= 1

\* After two calls, one of them with a paper that lacks an id and failed
\* part-way, a paper written twice is still one node.
C5_Witness ==
    /\ calls = 2
    /\ graph.Paper[""] = 1
    /\ graph.Paper["p1"] = 1
    /\ graph.title["p1"] = "t2"
    /\ graph.AUTHORED[<<"X", "p1">>] = 1
    /\ last.error_count >= 1

\* C9: when a paper synced successfully comes back with one more co-author
\* who has no Author node yet, the second sync leaves the Paper nodes as they
\* were (one for that id), leaves the first author's edge in place, and adds
\* exactly one Author node and exactly one AUTHORED edge.
C9_AddedCoAuthor ==
    [][(/\ calls' = calls + 1
        /\ last'.rel = "coauthor"
        /\ last'.outcome = <<"ok">>
        /\ graph.Author[last'.papers[1].authors[Len(last'.papers[1].authors)]] = 0)
         => LET d == last'.papers[1]
                new == d.authors[Len(d.authors)]
                old == d.authors[1]
            IN /\ graph'.Paper = graph.Paper
               /\ graph'.Paper[d.id] = 1
               /\ graph.AUTHORED[<<old, d.id>>] = 1
               /\ graph'.AUTHORED[<<old, d.id>>] = 1
               /\ graph'.Author = [graph.Author EXCEPT ![new] = 1]
               /\ graph'.AUTHORED = [graph.AUTHORED EXCEPT ![<<new, d.id>>] = 1]
               /\ BagTotal(graph'.Author) = BagTotal(graph.Author) + 1
               /\ BagTotal(graph'.AUTHORED) = BagTotal(graph.AUTHORED) + 1]_gvars

\* The paper was synced with author X, then with authors X and Y.
C9_Witness ==
    /\ last.rel = "coauthor"
    /\ last.outcome = <<"ok">>
    /\ graph.Paper["p1"] = 1
    /\ graph.Author = [a \in Authors |-> 1]
    /\ BagTotal(graph.AUTHORED) = 2

\* What the graph holds for one paper that was written completely.
PaperWritten(g, paper) ==
    LET id == PaperGetId(paper) IN
    /\ g.Paper[id] >= 1
    /\ g.title[id] = paper.title
    /\ \A i \in DOMAIN paper.authors :
          /\ g.Author[paper.authors[i]] >= 1
          /\ g.AUTHORED[<<paper.authors[i], id>>] >= 1
    /\ \A i \in DOMAIN paper.categories :
          /\ g.Category[paper.categories[i]] >= 1
          /\ g.IN_CATEGORY[<<id, paper.categories[i]>>] >= 1

\* C10: after the call returns, every paper it counted as a success has its
\* Paper node, an Author node and an AUTHORED edge per author, a Category
\* node and an IN_CATEGORY edge per category; two papers with one author and
\* one category each, synced into an empty graph, give 2 Paper, 2 Author and
\* 2 Category nodes and 2 edges of each kind.
C10_SuccessMeansWritten ==
    /\ \A i \in DOMAIN last.outcome :
          last.outcome[i] = "ok" => PaperWritten(graph, last.papers[i])
    /\ (calls = 1 /\ last.papers = <<DocA, DocB>> /\ last.success_count = 2) =>
          /\ BagTotal(graph.Paper) = 2
          /\ BagTotal(graph.Author) = 2
          /\ BagTotal(graph.Category) = 2
          /\ BagTotal(graph.AUTHORED) = 2
          /\ BagTotal(graph.IN_CATEGORY) = 2

\* The two-paper scenario has run.
C10_Witness ==
    /\ calls = 1
    /\ last.papers = <<DocA, DocB>>
    /\ last.success_count = 2
    /\ last.error_count = 0
    /\ BagTotal(graph.IN_CATEGORY) = 2

(***************************************************************************)
(* Properties of the vector replication (checked under SpecVec)            *)
(***************************************************************************)
\* A step that is a process_papers run directly after another one, neither
\* with an injected fault: the primary store did not change in between.
SecondRun ==
    /\ ops' = ops + 1
    /\ vlast.op = "process_papers" /\ vlast.fault = "none"
    /\ vlast'.op = "process_papers" /\ vlast'.fault = "none"

\* C1: after sync_qdrant_with_tracking completes, a paper id is in the
\* tracking ledger if and only if some point of the collection carries it as
\* paper_id, whatever the ledger and the collection were before (an empty
\* collection and a collection that did not exist included).
C1_LedgerMatchesStore ==
    (/\ cfg.TRACKING_ENABLED
     /\ vlast.op = "sync_qdrant_with_tracking"
     /\ vlast.fault = "none")
      => TrackedIds = PointPaperIds

\* C2: when the embedding raises for one paper of a batch, every other paper
\* of the batch that has a summary is upserted and recorded in the ledger:
\* after a run, each selected paper whose summary embeds has its point and
\* its ledger entry, and the run counts exactly those papers.
C2_BatchFaultIsolation ==
    (vlast.op = "process_papers" /\ vlast.fault = "none") =>
        LET good == {id \in SeqRange(vlast.selected) : papers_collection[id] = "ok"}
        IN /\ good \subseteq PointPaperIds
           /\ cfg.TRACKING_ENABLED => good \subseteq TrackedIds
           /\ vlast.processed = Cardinality(good)

\* C6: replicating the same papers again gives the same points with the
\* same point ids, no paper with two points, and the same ledger entries.
C6_ReplicateTwiceSamePoints ==
    [][(SecondRun /\ vlast'.selected = vlast.selected /\ vlast.selected # <<>>)
         => /\ points' = points
            /\ \A a, b \in points' : a.paper_id = b.paper_id => a.id = b.id
            /\ TrackedIds' = TrackedIds]_vars

\* C7: a second complete run with no change to the primary store reports the
\* papers the first run reported and leaves the counts as they were: the
\* collection holds a point for the same papers, the ledger the same entries.
C7_SecondRunChangesNothing ==
    [][SecondRun
         => /\ vlast'.processed = vlast.processed
            /\ Cardinality(points') = Cardinality(points)
            /\ PointPaperIds' = PointPaperIds
            /\ TrackedIds' = TrackedIds]_vars

\* C8: two runs of the replicator, each in its own process, give a paper id
\* the same point id.
C8_SamePointIdInEveryProcess ==
    [][(/\ ops' = ops + 1
        /\ vlast.op = "process_papers"
        /\ vlast'.op = "process_papers")
         => \A w1 \in vlast.written : \A w2 \in vlast'.written :
                w1[1] = w2[1] => w1[2] = w2[2]]_vars

\* C11: when the collection exists with a vector dimension other than the
\* configured one, a run of process_papers ends before any point is upserted
\* and leaves the collection as it found it: not written to, not replaced.
C11_DimensionMismatchIsFatal ==
    [][(/\ ops' = ops + 1
        /\ vlast'.op = "process_papers"
        /\ collection
        /\ vector_size # VECTOR_SIZE)
         => /\ vlast'.written = {}
            /\ vlast'.processed = 0
            /\ collection'
            /\ vector_size' = vector_size
            /\ points' = points]_vars

\* C12: at a batch boundary of a run the ledger already holds the entry of
\* every paper the run has upserted in the batches before the boundary (seen
\* in the state a run leaves when it is stopped at that boundary).
C12_LedgerWrittenBeforeNextBatch ==
    (/\ cfg.TRACKING_ENABLED
     /\ vlast.op = "process_papers"
     /\ vlast.killed)
      => \A w \in vlast.written : w[1] \in TrackedIds

C14_RemovedOnlyWhenPointAbsent ==
    [][(/\ ops' = ops + 1
        /\ vlast'.op = "sync_qdrant_with_tracking")
         => \A id \in TrackedIds \ TrackedIds' : id \notin PointPaperIds]_vars

\* C15: when a scroll call raises during reconcile, on the first page or on
\* a later one, the ledger is after the reconcile exactly what it was before.
C15_ScrollFailureLeavesLedger ==
    [][(/\ ops' = ops + 1
        /\ vlast'.op = "sync_qdrant_with_tracking"
        /\ vlast'.scroll_raised)
         => tracking' = tracking]_vars

\* C16: after a reconcile that stopped between its delete_many and its
\* bulk_write, a complete reconcile over the unchanged collection leaves in
\* the ledger the ids an uninterrupted reconcile would have left.
C16_InterruptedReconcileHeals ==
    vlast.cut => LedgerIds(SyncTracking(Store, "none").tracking) = vlast.would

\* The reconcile removed a stale entry and stopped: the ledger lacks an id
\* the uninterrupted reconcile would have added.
C16_Witness ==
    /\ vlast.op = "sync_qdrant_with_tracking"
    /\ vlast.cut
    /\ vlast.would = PointPaperIds
    /\ vlast.would \ TrackedIds # {}

\* C17: a complete reconcile directly after a complete reconcile removes no
\* ledger entry, adds none and changes none.
C17_ReconcileIdempotent ==
    [][(ops' = ops + 1 /\ vlast'.again) => tracking' = tracking]_vars

\* The second of two reconciles has run; the first had added the entries
\* (they carry no qdrant_id) of the points it found untracked.
C17_Witness ==
    /\ vlast.again
    /\ PointPaperIds # {}
    /\ TrackedIds = PointPaperIds
    /\ \E e \in tracking : e.qdrant_id = NoRef

\* C18: a complete reconcile gives every untracked id of the collection whose
\* paper is not in MongoDB a ledger entry of category "unknown", so the id is
\* no longer untracked when the next reconcile looks.
C18_MissingPrimaryGetsSentinel ==
    [][(/\ ops' = ops + 1
        /\ vlast'.op = "sync_qdrant_with_tracking"
        /\ vlast'.fault = "none"
        /\ cfg.TRACKING_ENABLED
        /\ collection)
         => \A id \in PointPaperIds \ TrackedIds :
               papers_collection[id] = "absent" =>
                  /\ \E e \in tracking' : e.paper_id = id /\ e.category = "unknown"
                  /\ id \notin PointPaperIds' \ TrackedIds']_vars

\* p1 has a point, is gone from MongoDB, and the reconcile has tracked it
\* as "unknown".
C18_Witness ==
    /\ vlast.op = "sync_qdrant_with_tracking"
    /\ vlast.fault = "none"
    /\ papers_collection["p1"] = "absent"
    /\ "p1" \in PointPaperIds
    /\ [paper_id |-> "p1", category |-> "unknown", qdrant_id |-> NoRef] \in tracking

(***************************************************************************)
(* Properties of the paged scan (checked under SpecScan)                   *)
(***************************************************************************)
RECURSIVE Flatten(_)
Flatten(pages) ==
    IF pages = <<>> THEN <<>> ELSE Head(pages) \o Flatten(Tail(pages))

\* The papers that stood in db.papers from the start of the scan to its end
\* and are in none of its pages.
Skipped == {id \in scan.stayed : CountOf(Flatten(scan.pages), id) = 0}

\* The papers the scan returned in two different pages.
Repeated ==
    {id \in SeqRange(Flatten(scan.pages)) :
        \E i, j \in DOMAIN scan.pages :
            i # j /\ id \in SeqRange(scan.pages[i]) /\ id \in SeqRange(scan.pages[j])}

\* C19: when db.papers is not written during the scan, the pages fetched at
\* skip = 0, batch_size, 2 * batch_size, ... hold, in the order of the
\* collection, every paper exactly once, batch_size papers per page but the
\* last.
C19_PagesCoverStoreOnce ==
    (scan.state = "done" /\ scan.inserts = 0 /\ scan.deletes = 0) =>
        /\ Flatten(scan.pages) = db_papers
        /\ \A id \in SeqRange(db_papers) : CountOf(Flatten(scan.pages), id) = 1
        /\ \A k \in DOMAIN scan.pages :
              /\ scan.pages[k] # <<>>
              /\ k < Len(scan.pages) => Len(scan.pages[k]) = scan.batch_size

\* Three papers scanned in pages of two: a full page, then a page of one.
C19_Witness ==
    /\ scan.state = "done"
    /\ scan.inserts = 0 /\ scan.deletes = 0
    /\ scan.batch_size = 2
    /\ scan.pages = <<(<<1, 2>>), (<<3>>)>>

\* C20: a scan returns a paper in two different pages only when a paper was
\* inserted while it ran, and misses a paper that stood in the collection
\* all along only when a paper was inserted or deleted while it ran; no page
\* holds a paper twice.  (That both do happen is the witness.)
C20_DriftNeedsConcurrentWrite ==
    scan.state = "done" =>
        /\ Repeated # {} => scan.inserts > 0
        /\ Skipped # {} => scan.inserts + scan.deletes > 0
        /\ \A k \in DOMAIN scan.pages : \A id \in SeqRange(scan.pages[k]) :
              CountOf(scan.pages[k], id) = 1

\* A scan during which one paper was inserted and one deleted: it returned
\* a paper in two pages and missed a paper that was there all along.
C20_Witness ==
    /\ scan.state = "done"
    /\ scan.inserts = 1 /\ scan.deletes = 1
    /\ Repeated # {}
    /\ Skipped # {}
    /\ Repeated \subseteq scan.stayed

(***************************************************************************)
(* Further properties of the vector replication (checked under SpecVec)    *)
(***************************************************************************)
\* C21: when a store cannot be reached at the start of a run (Qdrant: the
\* client cannot be created or get_collections raises; MongoDB: the first
\* call raises), the run processes nothing and ends with an exception that
\* reaches the top level, not with a normal return of zero items.
C21_ConnectivityFailureIsFatal ==
    (/\ vlast.op = "process_papers"
     /\ cfg.PAPER_SUMMARIES_ENABLED
     /\ vlast.fault \in {"connect", "reset_list", "mongo"})
      => /\ vlast.raised
         /\ vlast.processed = 0
         /\ vlast.written = {}

\* C22: when the server applied only some of the points of an upsert
\* request, the run reports as processed the number of points applied, and
\* no paper whose point was rejected is in the ledger after the run.
C22_CountsFollowAppliedPoints ==
    (/\ vlast.op = "process_papers"
     /\ vlast.rejected # {})
      => /\ vlast.processed = Cardinality(vlast.written)
         /\ vlast.rejected \cap TrackedIds = {}

\* C26: a process_papers run upserts no point of a paper whose summary is
\* missing, None or empty, and writes no ledger entry for such a paper: the
\* entries of such a paper after the run were there before it.
C26_OnlySummariesReplicated ==
    [][(/\ ops' = ops + 1
        /\ vlast'.op = "process_papers")
         => \A id \in PaperIds :
              papers_collection[id] \in {"absent", "empty", "null"}
                => /\ \A pt \in points' \ points : pt.paper_id # id
                   /\ \A w \in vlast'.written : w[1] # id
                   /\ {e \in tracking' : e.paper_id = id} \subseteq tracking]_vars

\* A run that retrieved p3, whose summary is None, together with papers it
\* replicated and tracked, and left p3 without point and without entry.
C26_Witness ==
    /\ vlast.op = "process_papers"
    /\ cfg.TRACKING_ENABLED
    /\ papers_collection["p3"] = "null"
    /\ "p3" \in SeqRange(vlast.selected)
    /\ vlast.processed > 0
    /\ TrackedIds # {}
    /\ "p3" \notin PointPaperIds \cup TrackedIds

\* C27: after a process_papers run with tracking enabled, the ledger entry
\* of every paper the run upserted a point for carries a qdrant_id, the
\* string of that point's id.
C27_EntryCarriesPointId ==
    (/\ vlast.op = "process_papers"
     /\ cfg.TRACKING_ENABLED)
      => \A w \in vlast.written :
           \A e \in tracking : e.paper_id = w[1] => e.qdrant_id = Str(w[2])

\* C29: after a process_papers run with tracking enabled that ran to its
\* end without any failure, every paper id of the ledger has a point in the
\* collection.
C29_LedgerIdsHavePoints ==
    (/\ vlast.op = "process_papers"
     /\ vlast.fault = "none"
     /\ cfg.TRACKING_ENABLED)
      => TrackedIds \subseteq PointPaperIds

\* C30: the ledger never holds two entries of one paper_id.
C30_OneEntryPerPaper ==
    \A e1 \in tracking : \A e2 \in tracking :
        e1.paper_id = e2.paper_id => e1 = e2

\* mark_paper_as_processed has just been called for a paper that
\* process_papers had tracked: every paper with a point has an entry with
\* the qdrant_id a run wrote.
C30_Witness ==
    /\ vlast.op = "mark_paper_as_processed"
    /\ PointPaperIds # {}
    /\ \A id \in PointPaperIds :
          \E e \in tracking : e.paper_id = id /\ e.qdrant_id # NoRef

(***************************************************************************)
(* Further properties of the graph sync (checked under SpecGraph)          *)
(***************************************************************************)
\* The orders of a batch: papers of pairwise distinct ids are pairwise
\* distinct documents, so an order is a one-to-one choice of its papers.
Perms(papers) ==
    {q \in [1..Len(papers) -> SeqRange(papers)] :
        \A i, j \in 1..Len(papers) : i # j => q[i] # q[j]}

\* C25: a sync_papers_batch call on papers of pairwise distinct ids, with
\* no fault of the store or of the session, leaves the graph that the same
\* call leaves for every other order of its papers.
C25_BatchOrderIrrelevant ==
    [][(/\ calls' = calls + 1
        /\ last'.clean
        /\ last'.sess = "none")
         => \E sync_timestamp \in {NoTs, RunTs} :
              \A q \in Perms(last'.papers) :
                 graph' = SyncResult(graph, q, sync_timestamp, NoFault, "none").g]_vars

\* A call that synced two papers of different ids sharing the author "Y".
C25_Witness ==
    /\ Len(last.papers) = 2
    /\ last.clean /\ last.sess = "none"
    /\ last.outcome = <<"ok", "ok">>
    /\ graph.AUTHORED[<<"Y", "p1">>] = 1
    /\ graph.AUTHORED[<<"Y", "p2">>] = 1
    /\ graph.Author["Y"] = 1

\* C28: the counts sync_papers_batch returns add up to the number of papers
\* it was given, whatever failed: a paper, the opening of the session, its
\* closing.
C28_CountsAddUp ==
    calls > 0 => last.success_count + last.error_count = Len(last.papers)

(***************************************************************************)
(* Concurrent runs (checked under SpecConc)                                *)
(***************************************************************************)
\* C23: when two process_papers runs on the same collection that overlapped
\* in time have both returned, every paper either run counted as processed
\* has a point in the collection, and every paper id of the ledger has one.
C23_ConcurrentRunsConsistent ==
    (/\ \A p \in Procs : runs[p].pc = "done"
     /\ \E p \in Procs : runs[p].overlapped)
      => /\ \A p \in Procs : \A w \in runs[p].written : w[1] \in PointPaperIds
         /\ TrackedIds \subseteq PointPaperIds

(***************************************************************************)
(* The PDF ledger (checked under SpecPdf)                                  *)
(***************************************************************************)
\* C24: a PDF is in the ledger only when its replication succeeded: every
\* chunk of a tracked file has its point in the collection.
C24_MarkedOnlyAfterReplication ==
    \A e \in pdf_tracking :
        \A i \in 1..ChunksOf(e.file_id) :
            \E pt \in pdf_points : pt.source = e.file_id /\ pt.chunk = i
====
